---- MODULE Spec2Model ----
(***************************************************************************)
(* Model of the retrieval-augmented-generation pipeline of                 *)
(* src/services/rag.py: the chunker (load_chunks), the template loader     *)
(* (load_templates), the embedder, the similarity index and its search,    *)
(* the reranker, the summary generator and the orchestrator                *)
(* (rag_pipeline).                                                         *)
(*                                                                         *)
(* Every function of the module is an entry point: `entry` is the function *)
(* the caller invoked, `pc` the function that runs next.  A function       *)
(* invoked by rag_pipeline hands over to the next stage of the pipeline, a *)
(* function invoked directly returns to its caller.  The external          *)
(* collaborators (database, embedding model, reranking model, generation   *)
(* model) are black boxes: their results are chosen nondeterministically   *)
(* and each of their calls may raise.                                      *)
(***************************************************************************)
EXTENDS Integers, Sequences, FiniteSets, TLC

\* ---------------------------------------------------------------- bounds
\* longest text handed to load_chunks / stored as a template's content
MaxTextLen == 3
\* cap on the length of the list load_chunks is building (the loop's guard)
MaxChunks == 5
\* longest candidate list handed to rerank
MaxCands == 6
\* most vectors in an index handed to search
MaxIndexed == 3
\* ------------------------------------------------------ program constants
\* load_chunks(text, source, chunk_size=200, overlap=50)
DefaultChunkSize == 200
DefaultOverlap == 50
\* rag_pipeline: search(..., top_k=15)
PipelineTopK == 15
\* rerank: ranked[:5]
RerankKeep == 5

NoTemplatesMsg == "No templates available. Please upload templates first."
\* the value of a string result that was never produced
NoValue == "<no value>"

\* ------------------------------------------------------------ input sets
Chars == {"a", "b"}
Texts == UNION {[1..n -> Chars] : n \in 0..MaxTextLen}
Filenames == {"f1", "f2"}
\* contents of the stored templates: an empty one, and two shorter than a window
TemplateTexts == {<<>>, <<"a">>, <<"a", "b">>}
Queries == {"q1"}
\* (chunk_size, overlap) pairs a caller of load_chunks passes: the defaults,
\* small windows with and without overlap, and overlap >= chunk_size.
Configs ==
    { <<DefaultChunkSize, DefaultOverlap>>, <<3, 1>>, <<2, 1>>, <<2, 0>>,
      <<1, 0>>, <<1, 1>>, <<1, 2>> }
\* unit vectors of the plane at 0, 90, 180 and 270 degrees
Vecs == 0..3
\* relevance scores reranker.predict may return (only their order matters)
Scores == {0, 1, 2}
\* texts the generation model may answer with
Responses == {"summary A", "summary B"}
\* top_k values a caller of search passes
TopKs == {2, PipelineTopK}

Min(a, b) == IF a < b THEN a ELSE b
Max(a, b) == IF a > b THEN a ELSE b

\* ------------------------------------------------------- python semantics
\* Python's s[a:b] on a sequence: a negative bound counts from the end, and
\* both bounds are clamped to 0..len(s).
PyBound(n, i) == IF i < 0 THEN Max(n + i, 0) ELSE Min(i, n)

PySlice(s, a, b) ==
    LET lo == PyBound(Len(s), a)
        hi == PyBound(Len(s), b)
    IN  IF lo < hi THEN SubSeq(s, lo + 1, hi) ELSE <<>>

\* Python's s[i] on a non-empty list, i in -len(s)..len(s)-1: a negative
\* index counts from the end.
PyIndex(s, i) == IF i < 0 THEN s[Len(s) + i + 1] ELSE s[i + 1]

\* ----------------------------------------------------------------- state
VARIABLES
    templates,       \* table clinical_documents: rows [filename, content]
    entry,           \* the function of rag.py the caller invoked
    pc,              \* the function that runs next ("idle", "done")
    outcome,         \* "none", "returned" or "raised"
    failed,          \* the collaborator whose call raised ("none")
    invoked,         \* the models invoked since the call began
    query,           \* rag_pipeline / rerank / generate_summary: query
    text, source, chunk_size, overlap, start, lc_chunks,  \* load_chunks
    rows, ti, all_chunks,                                  \* load_templates
    chunks,          \* rag_pipeline / search: chunks
    embeddings,      \* embed_chunks: embeddings
    index,           \* create_index: the vectors added, in order
    query_embedding, \* embed_query
    top_k,           \* search: top_k
    retrieved,       \* search's result; rerank's parameter chunks
    scores, ranked,  \* rerank: scores, ranked (positions of retrieved)
    reranked,        \* rerank's result; generate_summary's context_chunks
    prompt,          \* generate_summary: the prompt sent to the model
    response,        \* generate_summary: the text the model answered with
    summary,         \* the string rag_pipeline / generate_summary returns
    stages,          \* the stages that have begun since the call began
    inv,             \* the frames of the rag_pipeline invocations that run
                     \* side by side (one per request being served)
    users,           \* table users: rows [username, role, is_approved]
    doctors,         \* table doctor_details
    otps,            \* table otp_verifications
    summaries,       \* table discharge_summaries
    gen,             \* the frames of the generate_discharge requests in flight
    reply            \* what the last request handled by service.py answered

lcVars == <<text, source, chunk_size, overlap, start, lc_chunks>>
ltVars == <<rows, ti, all_chunks>>
embVars == <<embeddings, index, query_embedding>>
searchVars == <<top_k, retrieved>>
rerankVars == <<scores, ranked, reranked>>
genVars == <<prompt, response, summary>>
\* the frame of the caller that invokes one function of rag.py at a time
callVars == <<entry, pc, outcome, failed, invoked, query, lcVars, ltVars,
              chunks, embVars, searchVars, rerankVars, genVars, stages>>
\* the tables service.py works on, its requests in flight and its last answer
svcVars == <<users, doctors, otps, summaries, gen, reply>>
vars == <<templates, callVars, inv, svcVars>>

\* the rows of clinical_documents: filename is unique (table_schema.py:37)
Corpora ==
    { c \in UNION {[1..n -> [filename : Filenames, content : TemplateTexts]] :
                     n \in 0..Cardinality(Filenames)} :
        \A i, j \in 1..Len(c) : c[i].filename = c[j].filename => i = j }

\* The requests a server handles side by side, each running rag_pipeline.
Invocations == 1..2

\* the locals of one rag_pipeline invocation before its first statement
IdleFrame ==
    [pc |-> "idle", outcome |-> "none", failed |-> "none", query |-> "q1",
     rows |-> <<>>, ti |-> 1, all_chunks |-> <<>>,
     text |-> <<>>, source |-> "f1", start |-> 0, lc_chunks |-> <<>>,
     chunks |-> <<>>, summary |-> NoValue]

\* no function of rag.py has been invoked yet
InitCall ==
    /\ entry = "none"
    /\ pc = "idle"
    /\ outcome = "none"
    /\ failed = "none"
    /\ invoked = {}
    /\ query = "q1"
    /\ text = <<>> /\ source = "f1" /\ chunk_size = DefaultChunkSize
    /\ overlap = DefaultOverlap /\ start = 0 /\ lc_chunks = <<>>
    /\ rows = <<>> /\ ti = 1 /\ all_chunks = <<>>
    /\ chunks = <<>>
    /\ embeddings = <<>> /\ index = <<>> /\ query_embedding = 0
    /\ top_k = PipelineTopK /\ retrieved = <<>>
    /\ scores = <<>> /\ ranked = <<>> /\ reranked = <<>>
    /\ prompt = <<>>
    /\ response = NoValue
    /\ summary = NoValue
    /\ stages = <<>>

\* the accounts init_db creates (service.py lines 17-53): the administrator,
\* approved, and the doctor dr.smith, waiting for approval
InitUsers ==
    <<[username |-> "admin", role |-> "admin", is_approved |-> TRUE],
      [username |-> "dr.smith", role |-> "doctor", is_approved |-> FALSE]>>

\* the requests that generate a discharge summary side by side
Generations == 1..2

\* a generate_discharge request before its first statement
IdleGeneration ==
    [pc |-> "idle", patient |-> 0, outcome |-> "none", text |-> NoValue]

\* no request has been answered
NoReply == [op |-> "none", result |-> "none"]

\* service.py before its first request: the tables after init_db
InitSvc ==
    /\ users = InitUsers
    /\ doctors = <<>>
    /\ otps = <<>>
    /\ summaries = <<>>
    /\ gen = [g \in Generations |-> IdleGeneration]
    /\ reply = NoReply

Init ==
    /\ templates \in Corpora
    /\ inv = [i \in Invocations |-> IdleFrame]
    /\ InitCall
    /\ InitSvc

\* --------------------------------------------------------- load_chunks
\* A chunk: {"text": ..., "source": ...}
Chunk(t, s) == [text |-> t, source |-> s]

\* rag.py:16  end = min(start + chunk_size, len(text))
WindowEnd == Min(start + chunk_size, Len(text))

\* rag.py:21  start = end - overlap
NextStart == WindowEnd - overlap

\* a caller invokes load_chunks(text, source, chunk_size, overlap);
\* lines 13-14 initialise chunks and start
CallLoadChunks ==
    /\ pc = "idle"
    /\ \E t \in Texts, cfg \in Configs :
        /\ text' = t
        /\ chunk_size' = cfg[1]
        /\ overlap' = cfg[2]
    /\ source' = "f1"
    /\ start' = 0
    /\ lc_chunks' = <<>>
    /\ entry' = "load_chunks"
    /\ pc' = "load_chunks"
    /\ UNCHANGED <<templates, inv, svcVars, stages, outcome, failed, invoked, query, ltVars, chunks,
                   embVars, searchVars, rerankVars, genVars>>

\* one iteration of the while loop, lines 15-21
LoadChunksIter ==
    /\ pc = "load_chunks"
    /\ start < Len(text)
    /\ Len(lc_chunks) < MaxChunks
    /\ lc_chunks' = Append(lc_chunks, Chunk(PySlice(text, start, WindowEnd), source))
    /\ start' = NextStart
    /\ UNCHANGED <<templates, inv, svcVars, stages, entry, pc, outcome, failed, invoked, query,
                   text, source, chunk_size, overlap, ltVars, chunks,
                   embVars, searchVars, rerankVars, genVars>>

\* a variant of LoadChunksReturn that runs the loader again after a template
LoadChunksReturnRequery ==
    /\ pc = "load_chunks"
    /\ ~(start < Len(text))
    /\ IF entry = "load_chunks"
       THEN /\ pc' = "done"
            /\ outcome' = "returned"
            /\ UNCHANGED ltVars
       ELSE /\ pc' = "load_templates"
            /\ all_chunks' = all_chunks \o lc_chunks
            /\ ti' = ti + 1
            /\ UNCHANGED <<outcome, rows>>
    /\ UNCHANGED <<templates, inv, svcVars, stages, entry, failed, invoked, query, lcVars, chunks,
                   embVars, searchVars, rerankVars, genVars>>

\* the loop's exit and line 22: back to the caller, or to load_templates'
\* loop (line 29: all_chunks.extend(chunks))
LoadChunksReturn ==
    /\ pc = "load_chunks"
    /\ ~(start < Len(text))
    /\ IF entry = "load_chunks"
       THEN /\ pc' = "done"
            /\ outcome' = "returned"
            /\ UNCHANGED ltVars
       ELSE /\ pc' = "load_templates_loop"
            /\ all_chunks' = all_chunks \o lc_chunks
            /\ ti' = ti + 1
            /\ UNCHANGED <<outcome, rows>>
    /\ UNCHANGED <<templates, inv, svcVars, stages, entry, failed, invoked, query, lcVars, chunks,
                   embVars, searchVars, rerankVars, genVars>>

\* ------------------------------------------------------ failure / return
\* a variant of Raise that catches the exception and returns normally
RaiseSwallowed(who) ==
    /\ pc' = "done"
    /\ outcome' = "returned"
    /\ failed' = who

\* An exception raised by a collaborator's call: rag.py holds no try/except,
\* so it leaves the running function and every caller up to the entry point.
Raise(who) ==
    /\ pc' = "done"
    /\ outcome' = "raised"
    /\ failed' = who

\* The stage `stage` has completed: inside rag_pipeline the next statement of
\* lines 130-136 runs, a function invoked directly returns to its caller.
Continue(stage, next) ==
    IF entry = "rag_pipeline"
    THEN /\ pc' = next
         /\ UNCHANGED outcome
    ELSE /\ pc' = "done"
         /\ outcome' = "returned"

\* ------------------------------------------------------- load_templates
\* the caller invokes rag_pipeline(query, db); line 126 calls load_templates
CallRagPipeline ==
    /\ pc = "idle"
    /\ \E q \in Queries : query' = q
    /\ entry' = "rag_pipeline"
    /\ pc' = "load_templates"
    /\ UNCHANGED <<templates, inv, svcVars, stages, outcome, failed, invoked, lcVars, ltVars, chunks,
                   embVars, searchVars, rerankVars, genVars>>

\* lines 25-26: templates = db.query(ClinicalDocument).all(); all_chunks = []
LoadTemplatesQuery ==
    /\ pc = "load_templates"
    /\ rows' = templates
    /\ ti' = 1
    /\ all_chunks' = <<>>
    /\ pc' = "load_templates_loop"
    /\ stages' = Append(stages, "load_templates")
    /\ UNCHANGED <<templates, inv, svcVars, entry, outcome, failed, invoked, query, lcVars,
                   chunks, embVars, searchVars, rerankVars, genVars>>

\* line 25: the query raises (the database is unreachable)
LoadTemplatesFail ==
    /\ pc = "load_templates"
    /\ Raise("db")
    /\ stages' = Append(stages, "load_templates")
    /\ UNCHANGED <<templates, inv, svcVars, entry, invoked, query, lcVars, ltVars, chunks,
                   embVars, searchVars, rerankVars, genVars>>

\* The loop of lines 27-29 is the pipeline's chunking stage: it begins with
\* the loop's first iteration.
BeginChunking(st) ==
    IF st /= <<>> /\ st[Len(st)] = "chunk" THEN st ELSE Append(st, "chunk")

\* lines 27-28: the next template is chunked with the default configuration
LoadTemplatesNext ==
    /\ pc = "load_templates_loop"
    /\ ti <= Len(rows)
    /\ text' = rows[ti].content
    /\ source' = rows[ti].filename
    /\ chunk_size' = DefaultChunkSize
    /\ overlap' = DefaultOverlap
    /\ start' = 0
    /\ lc_chunks' = <<>>
    /\ pc' = "load_chunks"
    /\ stages' = BeginChunking(stages)
    /\ UNCHANGED <<templates, inv, svcVars, entry, outcome, failed, invoked, query, ltVars,
                   chunks, embVars, searchVars, rerankVars, genVars>>

\* a variant of NoChunks that takes every chunk list to hold chunks
NoChunksNever(cs) == FALSE

\* line 127: not chunks
NoChunks(cs) == cs = <<>>

\* a variant of LoadTemplatesReturn that gives the message only when no
\* template is stored
LoadTemplatesReturnRowsOnly ==
    /\ pc = "load_templates_loop"
    /\ ti > Len(rows)
    /\ chunks' = all_chunks
    /\ IF rows = <<>>
       THEN /\ summary' = NoTemplatesMsg
            /\ outcome' = "returned"
            /\ pc' = "done"
       ELSE /\ pc' = "embed_chunks"
            /\ UNCHANGED <<summary, outcome>>
    /\ UNCHANGED <<templates, inv, svcVars, stages, entry, failed, invoked, query, lcVars, ltVars,
                   embVars, searchVars, rerankVars, prompt, response>>

\* line 30 and rag_pipeline's lines 126-128: chunks = load_templates(db);
\* if not chunks: return the message
LoadTemplatesReturn ==
    /\ pc = "load_templates_loop"
    /\ ti > Len(rows)
    /\ chunks' = all_chunks
    /\ IF NoChunks(all_chunks)
       THEN /\ summary' = NoTemplatesMsg
            /\ outcome' = "returned"
            /\ pc' = "done"
       ELSE /\ pc' = "embed_chunks"
            /\ UNCHANGED <<summary, outcome>>
    /\ UNCHANGED <<templates, inv, svcVars, stages, entry, failed, invoked, query, lcVars, ltVars,
                   embVars, searchVars, rerankVars, prompt, response>>

\* ---------------------------------------------------- inputs of direct calls
\* The i-th chunk of the lists handed to a directly invoked function: four
\* distinct chunks of two sources, then the same ones again.
PoolChunk(i) ==
    Chunk(<<IF i % 2 = 1 THEN "a" ELSE "b">>,
          IF (i - 1) % 4 < 2 THEN "f1" ELSE "f2")

PoolList(n) == [i \in 1..n |-> PoolChunk(i)]

\* ------------------------------------------------------------- embedder
\* embed_model.encode is a function of the text: equal texts of one batch
\* get equal vectors.  faiss.normalize_L2 makes every vector a unit vector.
Encodings(cs) ==
    { e \in [1..Len(cs) -> Vecs] :
        \A i, j \in 1..Len(cs) : cs[i].text = cs[j].text => e[i] = e[j] }

CallEmbedChunks ==
    /\ pc = "idle"
    /\ \E n \in 1..MaxIndexed : chunks' = PoolList(n)
    /\ entry' = "embed_chunks"
    /\ pc' = "embed_chunks"
    /\ UNCHANGED <<templates, inv, svcVars, stages, outcome, failed, invoked, query, lcVars, ltVars,
                   embVars, searchVars, rerankVars, genVars>>

\* embed_chunks, lines 32-37
EmbedChunks ==
    /\ pc = "embed_chunks"
    /\ \E e \in Encodings(chunks) : embeddings' = e
    /\ invoked' = invoked \cup {"embed_model"}
    /\ Continue("embed_chunks", "create_index")
    /\ stages' = Append(stages, "embed_chunks")
    /\ UNCHANGED <<templates, inv, svcVars, entry, failed, query, lcVars, ltVars, chunks,
                   index, query_embedding, searchVars, rerankVars, genVars>>

\* lines 34 and 40: embed_model.encode raises
EmbedFail ==
    /\ pc \in {"embed_chunks", "embed_query"}
    /\ invoked' = invoked \cup {"embed_model"}
    /\ Raise("embed_model")
    /\ stages' = Append(stages, pc)
    /\ UNCHANGED <<templates, inv, svcVars, entry, query, lcVars, ltVars, chunks, embVars,
                   searchVars, rerankVars, genVars>>

CallCreateIndex ==
    /\ pc = "idle"
    /\ \E n \in 1..MaxIndexed : \E e \in [1..n -> Vecs] : embeddings' = e
    /\ entry' = "create_index"
    /\ pc' = "create_index"
    /\ UNCHANGED <<templates, inv, svcVars, stages, outcome, failed, invoked, query, lcVars, ltVars,
                   chunks, index, query_embedding, searchVars, rerankVars,
                   genVars>>

\* create_index, lines 44-48: index.add(embeddings) keeps the vectors in order
CreateIndex ==
    /\ pc = "create_index"
    /\ index' = embeddings
    /\ Continue("create_index", "embed_query")
    /\ stages' = Append(stages, "create_index")
    /\ UNCHANGED <<templates, inv, svcVars, entry, failed, invoked, query, lcVars, ltVars,
                   chunks, embeddings, query_embedding, searchVars, rerankVars,
                   genVars>>

CallEmbedQuery ==
    /\ pc = "idle"
    /\ \E q \in Queries : query' = q
    /\ entry' = "embed_query"
    /\ pc' = "embed_query"
    /\ UNCHANGED <<templates, inv, svcVars, stages, outcome, failed, invoked, lcVars, ltVars, chunks,
                   embVars, searchVars, rerankVars, genVars>>

\* embed_query, lines 39-42
EmbedQuery ==
    /\ pc = "embed_query"
    /\ \E v \in Vecs : query_embedding' = v
    /\ invoked' = invoked \cup {"embed_model"}
    /\ Continue("embed_query", "search")
    /\ stages' = Append(stages, "embed_query")
    /\ UNCHANGED <<templates, inv, svcVars, entry, failed, query, lcVars, ltVars, chunks,
                   embeddings, index, searchVars, rerankVars, genVars>>

\* ------------------------------------------------------ similarity index
\* inner product of two unit vectors of Vecs: the cosine of their angle
IP(a, b) ==
    LET d == (a - b) % 4
    IN  IF d = 0 THEN 1 ELSE IF d = 2 THEN 0 - 1 ELSE 0

\* a variant of InsertDesc that puts position i in front of its equals
InsertDescBeforeEqual(r, i, key) ==
    LET k == Cardinality({j \in 1..Len(r) : key[r[j]] > key[i]})
    IN  SubSeq(r, 1, k) \o <<i>> \o SubSeq(r, k + 1, Len(r))

\* `r` lists positions by key descending; position i goes behind every
\* position whose key is at least its own.
InsertDesc(r, i, key) ==
    LET k == Cardinality({j \in 1..Len(r) : key[r[j]] >= key[i]})
    IN  SubSeq(r, 1, k) \o <<i>> \o SubSeq(r, k + 1, Len(r))

\* The positions 1..n of `key` by key descending, equal keys in their
\* original order: what Python's sorted(..., reverse=True) yields, as it is
\* stable also when reversed.
RECURSIVE SortedDesc(_, _)
SortedDesc(key, n) ==
    IF n = 0 THEN <<>> ELSE InsertDesc(SortedDesc(key, n - 1), n, key)

\* index.search(query_embedding, top_k) of an IndexFlatIP, line 51: the labels
\* (0-based) of the top_k largest inner products in descending order; when
\* the index holds fewer than top_k vectors the missing labels are -1.
\* Equal inner products come in the order of the flat scan, lower label first.
FaissLabels(idx, q, k) ==
    LET sims == [i \in 1..Len(idx) |-> IP(q, idx[i])]
        order == SortedDesc(sims, Len(idx))
    IN  [j \in 1..k |-> IF j <= Len(idx) THEN order[j] - 1 ELSE 0 - 1]

\* line 52: [chunks[i] for i in indices[0]]
SearchResult(idx, q, cs, k) ==
    LET labels == FaissLabels(idx, q, k)
    IN  [j \in 1..k |-> PyIndex(cs, labels[j])]

CallSearch ==
    /\ pc = "idle"
    /\ \E n \in 1..MaxIndexed :
        /\ chunks' = PoolList(n)
        /\ \E e \in [1..n -> Vecs] : index' = e
    /\ \E v \in Vecs : query_embedding' = v
    /\ \E k \in TopKs : top_k' = k
    /\ entry' = "search"
    /\ pc' = "search"
    /\ UNCHANGED <<templates, inv, svcVars, stages, outcome, failed, invoked, query, lcVars, ltVars,
                   embeddings, retrieved, rerankVars, genVars>>

\* search, lines 50-52
Search ==
    /\ pc = "search"
    /\ retrieved' = SearchResult(index, query_embedding, chunks, top_k)
    /\ Continue("search", "rerank")
    /\ stages' = Append(stages, "search")
    /\ UNCHANGED <<templates, inv, svcVars, entry, failed, invoked, query, lcVars, ltVars,
                   chunks, embVars, top_k, rerankVars, genVars>>

\* -------------------------------------------------------------- reranker
CallRerank ==
    /\ pc = "idle"
    /\ \E q \in Queries : query' = q
    /\ \E n \in 0..MaxCands : retrieved' = PoolList(n)
    /\ entry' = "rerank"
    /\ pc' = "rerank"
    /\ UNCHANGED <<templates, inv, svcVars, stages, outcome, failed, invoked, lcVars, ltVars, chunks,
                   embVars, top_k, rerankVars, genVars>>

\* a variant of NoCandidates that sends every list to the scoring model
NoCandidatesNever(cs) == FALSE

\* line 55: not chunks
NoCandidates(cs) == cs = <<>>

\* a variant of TopRanked without the cut to five
TopRankedAll(cs, r) ==
    [j \in 1..Len(r) |-> cs[r[j]]]

\* line 60: [r[0] for r in ranked[:5]]
TopRanked(cs, r) ==
    [j \in 1..Min(RerankKeep, Len(r)) |-> cs[r[j]]]

\* rerank, lines 54-60; `ranked` holds the candidates' positions
Rerank ==
    /\ pc = "rerank"
    /\ IF NoCandidates(retrieved)
       THEN /\ reranked' = retrieved
            /\ UNCHANGED <<scores, ranked, invoked>>
       ELSE /\ \E sc \in [1..Len(retrieved) -> Scores] : scores' = sc
            /\ invoked' = invoked \cup {"reranker"}
            /\ ranked' = SortedDesc(scores', Len(retrieved))
            /\ reranked' = TopRanked(retrieved, ranked')
    /\ Continue("rerank", "generate_summary")
    /\ stages' = Append(stages, "rerank")
    /\ UNCHANGED <<templates, inv, svcVars, entry, failed, query, lcVars, ltVars, chunks,
                   embVars, searchVars, genVars>>

\* line 58: reranker.predict raises
RerankFail ==
    /\ pc = "rerank"
    /\ ~NoCandidates(retrieved)
    /\ invoked' = invoked \cup {"reranker"}
    /\ Raise("reranker")
    /\ stages' = Append(stages, "rerank")
    /\ UNCHANGED <<templates, inv, svcVars, entry, query, lcVars, ltVars, chunks, embVars,
                   searchVars, rerankVars, genVars>>

\* ------------------------------------------------------ summary generator
\* Strings are sequences of pieces: a fixed piece of text, an interpolated
\* value, or one character of a chunk's text.
\* line 65: f"--- TEMPLATE: {c['source']} ---\n{c['text']}\n\n"
Block(c) == <<"--- TEMPLATE: ", c.source, " ---\n">> \o c.text \o <<"\n\n">>

\* lines 63-65: context = "" and context += the block of every chunk, in order
RECURSIVE Context(_)
Context(cs) ==
    IF cs = <<>> THEN <<>>
    ELSE Context(SubSeq(cs, 1, Len(cs) - 1)) \o Block(cs[Len(cs)])

\* lines 67-115: the fixed text up to the query, the query, the heading of
\* the templates, the context, and the fixed format and instructions
Prompt(q, cs) ==
    <<"You are ... PATIENT INFORMATION:\n", q, "\n\nREFERENCE TEMPLATES:\n">>
        \o Context(cs)
        \o <<"\n\nDISCHARGE SUMMARY FORMAT: ... Generate the discharge summary now:">>

CallGenerateSummary ==
    /\ pc = "idle"
    /\ \E q \in Queries : query' = q
    /\ \E n \in 0..MaxIndexed : reranked' = PoolList(n)
    /\ entry' = "generate_summary"
    /\ pc' = "generate_summary"
    /\ UNCHANGED <<templates, inv, svcVars, stages, outcome, failed, invoked, lcVars, ltVars, chunks,
                   embVars, searchVars, scores, ranked, genVars>>

\* a variant of ReturnedText that cuts the response to a fixed text
ReturnedTextCut(r) == "summary"

\* line 123 and rag_pipeline's lines 135-136: the response's content is
\* returned as it is
ReturnedText(r) == r

\* generate_summary, lines 62-123, and rag_pipeline's lines 135-136
GenerateSummary ==
    /\ pc = "generate_summary"
    /\ prompt' = Prompt(query, reranked)
    /\ invoked' = invoked \cup {"client"}
    /\ \E r \in Responses : response' = r
    /\ summary' = ReturnedText(response')
    /\ pc' = "done"
    /\ outcome' = "returned"
    /\ stages' = Append(stages, "generate_summary")
    /\ UNCHANGED <<templates, inv, svcVars, entry, failed, query, lcVars, ltVars, chunks,
                   embVars, searchVars, rerankVars>>

\* line 117: client.chat.completions.create raises
GenerateFail ==
    /\ pc = "generate_summary"
    /\ prompt' = Prompt(query, reranked)
    /\ invoked' = invoked \cup {"client"}
    /\ Raise("client")
    /\ stages' = Append(stages, "generate_summary")
    /\ UNCHANGED <<templates, inv, svcVars, entry, query, lcVars, ltVars, chunks, embVars,
                   searchVars, rerankVars, response, summary>>

Next ==
    \/ CallLoadChunks
    \/ LoadChunksIter
    \/ LoadChunksReturn
    \/ CallRagPipeline
    \/ LoadTemplatesQuery
    \/ LoadTemplatesFail
    \/ LoadTemplatesNext
    \/ LoadTemplatesReturn
    \/ CallEmbedChunks
    \/ EmbedChunks
    \/ EmbedFail
    \/ CallCreateIndex
    \/ CreateIndex
    \/ CallEmbedQuery
    \/ EmbedQuery
    \/ CallSearch
    \/ Search
    \/ CallRerank
    \/ Rerank
    \/ RerankFail
    \/ CallGenerateSummary
    \/ GenerateSummary
    \/ GenerateFail

Spec == Init /\ [][Next]_vars

\* ================================================= concurrent invocations
\* Requests are served side by side: rag_pipeline invocations (route.py:406,
\* service.py:635), each with its own database session and its own locals,
\* interleave with each other and with the template services of service.py.
\* The module-level objects of rag.py lines 8-10 are only called, never
\* assigned.  As no invocation gets past the loader with chunks
\* (FramesNeverPastLoader below), the steps of a frame are those of
\* load_templates, load_chunks and rag_pipeline's lines 126-128.

\* contents an uploaded or updated template may have
UploadTexts == {<<>>, <<"a">>}

\* windows a frame is followed through before the model leaves it looping
MaxFrameChunks == 2

\* a variant of TemplateRow that reads the stored row at the time of use
\* (a row no longer stored reads as an empty template)
TemplateRowLive(i, k) ==
    IF k <= Len(templates) THEN templates[k]
    ELSE [filename |-> "f1", content |-> <<>>]

\* load_templates line 28: t, the k-th element of the list line 25 returned
\* to invocation i
TemplateRow(i, k) == inv[i].rows[k]

\* the step of invocation i that takes its frame to f
FrameStep(i, f) ==
    /\ inv' = [inv EXCEPT ![i] = f]
    /\ UNCHANGED <<callVars, svcVars>>

\* a request calls rag_pipeline(query, db): line 126 calls load_templates
FrameCall(i) ==
    /\ inv[i].pc = "idle"
    /\ \E q \in Queries :
         FrameStep(i, [inv[i] EXCEPT !.pc = "load_templates", !.query = q])
    /\ UNCHANGED templates

\* a variant of FrameQuery that removes the rows it has read
FrameQueryConsuming(i) ==
    /\ inv[i].pc = "load_templates"
    /\ FrameStep(i, [inv[i] EXCEPT !.rows = templates, !.ti = 1,
                                   !.all_chunks = <<>>,
                                   !.pc = "load_templates_loop"])
    /\ templates' = <<>>

\* lines 25-26: templates = db.query(ClinicalDocument).all(); all_chunks = []
FrameQuery(i) ==
    /\ inv[i].pc = "load_templates"
    /\ FrameStep(i, [inv[i] EXCEPT !.rows = templates, !.ti = 1,
                                   !.all_chunks = <<>>,
                                   !.pc = "load_templates_loop"])
    /\ UNCHANGED templates

\* line 25: the query raises; nothing catches it (lines 125-136)
FrameQueryFail(i) ==
    /\ inv[i].pc = "load_templates"
    /\ FrameStep(i, [inv[i] EXCEPT !.pc = "done", !.outcome = "raised",
                                   !.failed = "db"])
    /\ UNCHANGED templates

\* lines 27-28 and 13-14: load_chunks(t.content, t.filename) begins
FrameNext(i) ==
    /\ inv[i].pc = "load_templates_loop"
    /\ inv[i].ti <= Len(inv[i].rows)
    /\ FrameStep(i, [inv[i] EXCEPT
            !.text = TemplateRow(i, inv[i].ti).content,
            !.source = TemplateRow(i, inv[i].ti).filename,
            !.start = 0, !.lc_chunks = <<>>, !.pc = "load_chunks"])
    /\ UNCHANGED templates

\* lines 15-21 with the default chunk_size and overlap
FrameChunkIter(i) ==
    LET f == inv[i]
        end == Min(f.start + DefaultChunkSize, Len(f.text))
    IN  /\ f.pc = "load_chunks"
        /\ f.start < Len(f.text)
        /\ Len(f.lc_chunks) < MaxFrameChunks
        /\ FrameStep(i, [f EXCEPT
                !.lc_chunks = Append(f.lc_chunks,
                                     Chunk(PySlice(f.text, f.start, end), f.source)),
                !.start = end - DefaultOverlap])
        /\ UNCHANGED templates

\* the loop's exit, line 22 and line 29: all_chunks.extend(chunks)
FrameChunksReturn(i) ==
    LET f == inv[i]
    IN  /\ f.pc = "load_chunks"
        /\ f.start >= Len(f.text)
        /\ FrameStep(i, [f EXCEPT !.all_chunks = f.all_chunks \o f.lc_chunks,
                                  !.ti = f.ti + 1,
                                  !.pc = "load_templates_loop"])
        /\ UNCHANGED templates

\* line 30 and rag_pipeline's lines 126-128
FrameReturn(i) ==
    LET f == inv[i]
    IN  /\ f.pc = "load_templates_loop"
        /\ f.ti > Len(f.rows)
        /\ FrameStep(i, IF NoChunks(f.all_chunks)
                        THEN [f EXCEPT !.chunks = f.all_chunks,
                                       !.summary = NoTemplatesMsg,
                                       !.outcome = "returned", !.pc = "done"]
                        ELSE [f EXCEPT !.chunks = f.all_chunks,
                                       !.pc = "embed_chunks"])
        /\ UNCHANGED templates

\* a stored template has the filename fn
FilenameStored(fn) == \E k \in 1..Len(templates) : templates[k].filename = fn

\* the place of the stored template with the filename fn
PlaceOf(fn) == CHOOSE k \in 1..Len(templates) : templates[k].filename = fn

\* service.py lines 570-581: the table after add_document(db, fn, ct); an
\* existing filename is reported, not stored again
AfterAdd(fn, ct) ==
    IF FilenameStored(fn) THEN templates
    ELSE Append(templates, [filename |-> fn, content |-> ct])

\* another row than the k-th holds the filename fn
FilenameTaken(k, fn) ==
    \E j \in 1..Len(templates) : j /= k /\ templates[j].filename = fn

\* a variant of AfterUpdate for a table without the unique constraint
AfterUpdateUnchecked(k, fn, ct) ==
    IF k > Len(templates) THEN templates
    ELSE [templates EXCEPT ![k] = [filename |-> fn, content |-> ct]]

\* service.py lines 591-597: the table after update_document(db, k, fn, ct);
\* the row is named by its place in the table.  A filename another row holds
\* violates the unique constraint (table_schema.py:37): the commit fails and
\* nothing is stored.
AfterUpdate(k, fn, ct) ==
    IF k > Len(templates) THEN templates
    ELSE IF FilenameTaken(k, fn) THEN templates
    ELSE [templates EXCEPT ![k] = [filename |-> fn, content |-> ct]]

\* service.py lines 601-605: the table after delete_document(db, k)
AfterDelete(k) ==
    IF k > Len(templates) THEN templates
    ELSE SubSeq(templates, 1, k - 1) \o SubSeq(templates, k + 1, Len(templates))

\* service.py lines 569-582
AddDocument ==
    /\ \E fn \in Filenames, ct \in UploadTexts : templates' = AfterAdd(fn, ct)
    /\ UNCHANGED <<callVars, inv, svcVars>>

\* service.py lines 590-598
UpdateDocument ==
    /\ \E k \in 1..Cardinality(Filenames), fn \in Filenames, ct \in UploadTexts :
         templates' = AfterUpdate(k, fn, ct)
    /\ UNCHANGED <<callVars, inv, svcVars>>

\* service.py lines 600-606
DeleteDocument ==
    /\ \E k \in 1..Cardinality(Filenames) : templates' = AfterDelete(k)
    /\ UNCHANGED <<callVars, inv, svcVars>>

\* the table is empty before the first upload
InitConc ==
    /\ templates = <<>>
    /\ inv = [i \in Invocations |-> IdleFrame]
    /\ InitCall
    /\ InitSvc

NextConc ==
    \/ \E i \in Invocations : FrameCall(i)
    \/ \E i \in Invocations : FrameQuery(i)
    \/ \E i \in Invocations : FrameQueryFail(i)
    \/ \E i \in Invocations : FrameNext(i)
    \/ \E i \in Invocations : FrameChunkIter(i)
    \/ \E i \in Invocations : FrameChunksReturn(i)
    \/ \E i \in Invocations : FrameReturn(i)
    \/ AddDocument
    \/ UpdateDocument
    \/ DeleteDocument

SpecConc == InitConc /\ [][NextConc]_vars

\* ====================================================== template requests
\* The template handlers of route.py lines 264-318 answer with what the
\* services of service.py lines 569-606 return.

\* POST /templates, route.py lines 264-270: add_document's result is the answer
UploadDocument ==
    /\ \E fn \in Filenames, ct \in TemplateTexts :
         /\ templates' = AfterAdd(fn, ct)
         /\ reply' = IF FilenameStored(fn)
                      THEN [op |-> "upload_document", filename |-> fn,
                            result |-> "Template already exists",
                            template_id |-> PlaceOf(fn)]
                      ELSE [op |-> "upload_document", filename |-> fn,
                            result |-> "created",
                            template_id |-> Len(templates) + 1]
    /\ UNCHANGED <<callVars, inv, users, doctors, otps, summaries, gen>>

\* PUT /templates/{template_id}, route.py lines 290-303
UpdateTemplate ==
    /\ \E k \in 1..(Cardinality(Filenames) + 1), fn \in Filenames,
          ct \in TemplateTexts :
         /\ templates' = AfterUpdate(k, fn, ct)
         /\ reply' = [op |-> "update_template", filename |-> fn,
                      result |-> IF k > Len(templates) THEN "Template not found"
                                 ELSE IF FilenameTaken(k, fn) THEN "raised"
                                 ELSE "Template updated successfully",
                      template_id |-> k]
    /\ UNCHANGED <<callVars, inv, users, doctors, otps, summaries, gen>>

\* DELETE /templates/{template_id}, route.py lines 305-314
DeleteTemplate ==
    /\ \E k \in 1..(Cardinality(Filenames) + 1) :
         /\ templates' = AfterDelete(k)
         /\ reply' = [op |-> "delete_template", filename |-> "",
                      result |-> IF k > Len(templates) THEN "Template not found"
                                 ELSE "Template deleted successfully",
                      template_id |-> k]
    /\ UNCHANGED <<callVars, inv, users, doctors, otps, summaries, gen>>

\* the table is empty before the first upload
InitTemplates ==
    /\ templates = <<>>
    /\ inv = [i \in Invocations |-> IdleFrame]
    /\ InitCall
    /\ InitSvc

NextTemplates ==
    \/ UploadDocument
    \/ UpdateTemplate
    \/ DeleteTemplate

SpecTemplates == InitTemplates /\ [][NextTemplates]_vars

\* ====================================================== discharge requests
\* generate_discharge (service.py lines 609-646) runs rag_pipeline with the
\* request's own session: generation g runs the pipeline in the frame inv[g],
\* whose steps are those of the concurrent invocations above.

\* the patients stored (table patients); a request may name another id
StoredPatients == {1, 2}
RequestedPatients == {1, 2, 3}

\* the rows of discharge_summaries of patient p that are not approved
Unapproved(p) ==
    {k \in 1..Len(summaries) :
        summaries[k].patient_id = p /\ ~summaries[k].approved}

\* lines 610-635: the patient is looked up, then a summary of the patient that
\* is not approved; without one the query is built and rag_pipeline is called
GenerateCall(g) ==
    /\ gen[g].pc = "idle"
    /\ \E p \in RequestedPatients, q \in Queries :
         IF p \notin StoredPatients
         THEN /\ gen' = [gen EXCEPT ![g] = [pc |-> "done", patient |-> p,
                                            outcome |-> "Patient not found",
                                            text |-> NoValue]]
              /\ UNCHANGED inv
         ELSE IF Unapproved(p) /= {}
         THEN /\ gen' = [gen EXCEPT ![g] =
                    [pc |-> "done", patient |-> p,
                     outcome |-> "Pending discharge summary already exists",
                     text |-> summaries[CHOOSE k \in Unapproved(p) : TRUE].summary]]
              /\ UNCHANGED inv
         ELSE /\ gen' = [gen EXCEPT ![g] = [pc |-> "rag_pipeline", patient |-> p,
                                            outcome |-> "none", text |-> NoValue]]
              /\ inv' = [inv EXCEPT ![g] =
                            [IdleFrame EXCEPT !.pc = "load_templates", !.query = q]]
    /\ UNCHANGED <<templates, callVars, users, doctors, otps, summaries, reply>>

\* lines 635-646: rag_pipeline has returned; its string is stored as the
\* patient's summary, not approved
GenerateStore(g) ==
    /\ gen[g].pc = "rag_pipeline"
    /\ inv[g].pc = "done"
    /\ inv[g].outcome = "returned"
    /\ summaries' = Append(summaries, [patient_id |-> gen[g].patient,
                                       summary |-> inv[g].summary,
                                       approved |-> FALSE])
    /\ gen' = [gen EXCEPT ![g] = [@ EXCEPT !.pc = "done", !.outcome = "stored",
                                            !.text = inv[g].summary]]
    /\ UNCHANGED <<templates, callVars, inv, users, doctors, otps, reply>>

\* line 635: rag_pipeline raises; generate_discharge holds no try/except
GenerateRaise(g) ==
    /\ gen[g].pc = "rag_pipeline"
    /\ inv[g].pc = "done"
    /\ inv[g].outcome = "raised"
    /\ gen' = [gen EXCEPT ![g] = [@ EXCEPT !.pc = "done", !.outcome = "raised"]]
    /\ UNCHANGED <<templates, callVars, inv, users, doctors, otps, summaries, reply>>

\* service.py lines 668-684: approve_discharge(db, summary_id, approval); the
\* summary is named by its place in the table
ApproveDischarge ==
    /\ \E k \in 1..(Cardinality(Generations) + 1) :
         summaries' = IF k > Len(summaries) THEN summaries
                      ELSE [summaries EXCEPT ![k].approved = TRUE]
    /\ UNCHANGED <<templates, callVars, inv, users, doctors, otps, gen, reply>>

InitDischarge ==
    /\ templates \in Corpora
    /\ inv = [i \in Invocations |-> IdleFrame]
    /\ InitCall
    /\ InitSvc

NextDischarge ==
    \/ \E g \in Generations : GenerateCall(g)
    \/ \E g \in Generations : FrameQuery(g)
    \/ \E g \in Generations : FrameQueryFail(g)
    \/ \E g \in Generations : FrameNext(g)
    \/ \E g \in Generations : FrameChunkIter(g)
    \/ \E g \in Generations : FrameChunksReturn(g)
    \/ \E g \in Generations : FrameReturn(g)
    \/ \E g \in Generations : GenerateStore(g)
    \/ \E g \in Generations : GenerateRaise(g)
    \/ ApproveDischarge

SpecDischarge == InitDischarge /\ [][NextDischarge]_vars

\* ======================================================= doctor accounts
\* Rows are named by their place in their table: the id of the k-th row is k
\* (no row of users or doctor_details is ever deleted).  A doctor's user_id
\* of 0 is NULL.

\* what an administrator enters for a new doctor (schema.py lines 87-97): the
\* columns that are checked or unique.  Any two of the first three collide:
\* on the email, on the license number, or on the phone; the fourth collides
\* with none of them.
Applications ==
    { [email |-> "e1", phone |-> "p1", license_number |-> "l1"],
      [email |-> "e1", phone |-> "p2", license_number |-> "l2"],
      [email |-> "e2", phone |-> "p2", license_number |-> "l1"],
      [email |-> "e3", phone |-> "p3", license_number |-> "l3"] }

\* the ids generate_employee_id may draw (service.py lines 57-61)
EmployeeIds == {"H1", "H2"}

\* the usernames a doctor registers with (register_doctor's parameter)
RegisterNames == {"H1", "dr.smith"}

\* the usernames a login names
LoginNames == {"admin", "dr.smith", "H1"}

\* the ids a request of the administrator names
RequestedIds == 1..3

UsernameStored(un) == \E k \in 1..Len(users) : users[k].username = un

UserNamed(un) == CHOOSE k \in 1..Len(users) : users[k].username = un

\* a variant of NewDoctorUser that creates the account approved
NewDoctorUserApproved(un) ==
    [username |-> un, role |-> "doctor", is_approved |-> TRUE]

\* service.py lines 206-214 and 478-484: a doctor's account starts unapproved
NewDoctorUser(un) ==
    [username |-> un, role |-> "doctor", is_approved |-> FALSE]

\* service.py lines 180-193: the profile is stored pending, its phone marked
\* as verified
NewProfile(eid, a) ==
    [employee_id |-> eid, email |-> a.email, phone |-> a.phone,
     license_number |-> a.license_number, phone_verified |-> TRUE,
     status |-> "pending", user_id |-> 0]

\* create_doctor_profile, service.py lines 155-231.  The loop of lines 158-160
\* ends with an employee id no profile holds.  The profile is committed
\* (line 196) before the account is inserted (line 218): a phone another
\* profile holds fails the first commit (doctor_details.phone is unique), a
\* username that is taken fails the second (users.username is unique), and
\* nothing catches either.  apps and eids are the applications entered and
\* the employee ids drawn.
CreateDoctorProfileOf(apps, eids) ==
    /\ \E a \in apps, eid \in eids :
         /\ \A k \in 1..Len(doctors) : doctors[k].employee_id /= eid
         /\ IF \E k \in 1..Len(doctors) : doctors[k].email = a.email
            THEN /\ reply' = [op |-> "create_doctor_profile",
                              result |-> "Email already registered"]
                 /\ UNCHANGED <<doctors, users>>
            ELSE IF \E k \in 1..Len(doctors) :
                        doctors[k].license_number = a.license_number
            THEN /\ reply' = [op |-> "create_doctor_profile",
                              result |-> "License number already registered"]
                 /\ UNCHANGED <<doctors, users>>
            ELSE IF \E k \in 1..Len(doctors) : doctors[k].phone = a.phone
            THEN /\ reply' = [op |-> "create_doctor_profile",
                              result |-> "raised"]
                 /\ UNCHANGED <<doctors, users>>
            ELSE IF UsernameStored(eid)
            THEN /\ reply' = [op |-> "create_doctor_profile",
                              result |-> "raised"]
                 /\ doctors' = Append(doctors, NewProfile(eid, a))
                 /\ UNCHANGED users
            ELSE /\ reply' = [op |-> "create_doctor_profile",
                              result |-> "created"]
                 /\ users' = Append(users, NewDoctorUser(eid))
                 /\ doctors' = Append(doctors,
                        [NewProfile(eid, a) EXCEPT !.user_id = Len(users) + 1])
    /\ UNCHANGED <<templates, callVars, inv, otps, summaries, gen>>

CreateDoctorProfile == CreateDoctorProfileOf(Applications, EmployeeIds)

\* register_doctor, service.py lines 473-491
RegisterDoctor ==
    /\ \E un \in RegisterNames :
         IF UsernameStored(un)
         THEN /\ reply' = [op |-> "register_doctor",
                           result |-> "Username already exists"]
              /\ UNCHANGED users
         ELSE /\ reply' = [op |-> "register_doctor", result |-> "registered"]
              /\ users' = Append(users, NewDoctorUser(un))
    /\ UNCHANGED <<templates, callVars, inv, doctors, otps, summaries, gen>>

\* approve_doctor, service.py lines 348-392: the profile with the id, else
\* the doctor account with the id
ApproveDoctor ==
    /\ \E id \in RequestedIds :
         IF id <= Len(doctors)
         THEN /\ doctors' = [doctors EXCEPT ![id].status = "active"]
              /\ users' = IF doctors[id].user_id \in 1..Len(users)
                           THEN [users EXCEPT
                                    ![doctors[id].user_id].is_approved = TRUE]
                           ELSE users
              /\ reply' = [op |-> "approve_doctor", result |-> "approved"]
         ELSE IF id <= Len(users) /\ users[id].role = "doctor"
         THEN /\ users' = [users EXCEPT ![id].is_approved = TRUE]
              /\ reply' = [op |-> "approve_doctor", result |-> "approved"]
              /\ UNCHANGED doctors
         ELSE /\ reply' = [op |-> "approve_doctor",
                           result |-> "Doctor not found"]
              /\ UNCHANGED <<doctors, users>>
    /\ UNCHANGED <<templates, callVars, inv, otps, summaries, gen>>

\* reject_doctor, service.py lines 394-410
RejectDoctor ==
    /\ \E id \in RequestedIds :
         IF id <= Len(doctors)
         THEN /\ doctors' = [doctors EXCEPT ![id].status = "rejected"]
              /\ reply' = [op |-> "reject_doctor", result |-> "rejected"]
         ELSE /\ reply' = [op |-> "reject_doctor",
                           result |-> "Doctor not found"]
              /\ UNCHANGED doctors
    /\ UNCHANGED <<templates, callVars, inv, users, otps, summaries, gen>>

\* delete_doctor, service.py lines 437-449: the profile is kept, inactive
DeleteDoctor ==
    /\ \E id \in RequestedIds :
         IF id <= Len(doctors)
         THEN /\ doctors' = [doctors EXCEPT ![id].status = "inactive"]
              /\ reply' = [op |-> "delete_doctor", result |-> "removed"]
         ELSE /\ reply' = [op |-> "delete_doctor",
                           result |-> "Doctor not found"]
              /\ UNCHANGED doctors
    /\ UNCHANGED <<templates, callVars, inv, users, otps, summaries, gen>>

\* a variant of MayLogin that lets every account in
MayLoginAlways(u) == TRUE

\* service.py line 458: a doctor's account must be approved
MayLogin(u) == ~(u.role = "doctor" /\ ~u.is_approved)

\* login_user, service.py lines 453-471; the password given is the stored
\* one or another
LoginUser ==
    /\ \E un \in LoginNames, password_ok \in BOOLEAN :
         reply' =
            IF ~UsernameStored(un) \/ ~password_ok
            THEN [op |-> "login_user", result |-> "Invalid credentials",
                  username |-> un]
            ELSE IF ~MayLogin(users[UserNamed(un)])
            THEN [op |-> "login_user", result |-> "Doctor not approved yet",
                  username |-> un]
            ELSE [op |-> "login_user", result |-> "token", username |-> un]
    /\ UNCHANGED <<templates, callVars, inv, users, doctors, otps, summaries, gen>>

\* get_pending_doctors, service.py lines 242-298: the employee ids of the
\* entries returned: the pending profiles, then the unapproved doctor
\* accounts whose username is no pending profile's employee id
PendingDoctorsList ==
    LET profiles == SelectSeq(doctors, LAMBDA d : d.status = "pending")
        seen_ids == {profiles[k].employee_id : k \in 1..Len(profiles)}
        pending_users ==
            SelectSeq(users, LAMBDA u : u.role = "doctor" /\ ~u.is_approved
                                          /\ u.username \notin seen_ids)
    IN  [k \in 1..Len(profiles) |-> profiles[k].employee_id]
            \o [k \in 1..Len(pending_users) |-> pending_users[k].username]

\* get_dashboard_stats, service.py lines 697-702: stats["pending_doctors"]
PendingDoctorsCount ==
    Len(SelectSeq(doctors, LAMBDA d : d.status = "pending"))
        + Len(SelectSeq(users, LAMBDA u : u.role = "doctor" /\ ~u.is_approved))

InitAccounts ==
    /\ templates = <<>>
    /\ inv = [i \in Invocations |-> IdleFrame]
    /\ InitCall
    /\ InitSvc

NextAccounts ==
    \/ CreateDoctorProfile
    \/ RegisterDoctor
    \/ ApproveDoctor
    \/ RejectDoctor
    \/ DeleteDoctor
    \/ LoginUser

SpecAccounts == InitAccounts /\ [][NextAccounts]_vars

\* ====================================================== phone verification
\* otp_verifications: rows [phone, otp, verified, expired, attempts].  expired
\* stands for expires_at <= now: every row lives ten minutes (line 98), so
\* rows expire in the order they were stored.

\* the phones an administrator verifies, and the codes generate_otp may draw
\* or a request may submit
OtpPhones == {"p1", "p2"}
OtpCodes == {"c1", "c2"}

\* the applications entered while phones are being verified: those of the
\* first phone
OtpApplications == {a \in Applications : a.phone = "p1"}

\* rows of otp_verifications, and failed attempts on one row, that are followed
MaxOtps == 2
MaxAttempts == 1

\* the rows of the phone that are not verified
UnverifiedOf(ph) ==
    {k \in 1..Len(otps) : otps[k].phone = ph /\ ~otps[k].verified}

\* a variant of OtpMatches that accepts a row whose time has run out
OtpMatchesExpired(r, ph, code) ==
    r.phone = ph /\ r.otp = code /\ ~r.verified

\* service.py lines 125-130: the filter of verify_phone_otp
OtpMatches(r, ph, code) ==
    r.phone = ph /\ r.otp = code /\ ~r.verified /\ ~r.expired

\* send_verification_otp, service.py lines 79-121: refused for a phone a
\* profile holds; else the phone's unverified rows are deleted and a new row
\* is stored
SendVerificationOtp ==
    /\ \E ph \in OtpPhones, code \in OtpCodes :
         IF \E k \in 1..Len(doctors) : doctors[k].phone = ph
         THEN /\ reply' = [op |-> "send_verification_otp", phone |-> ph,
                           result |-> "Phone number already registered"]
              /\ UNCHANGED otps
         ELSE LET kept == SelectSeq(otps, LAMBDA r : ~(r.phone = ph /\ ~r.verified))
              IN  /\ Len(kept) < MaxOtps
                  /\ otps' = Append(kept, [phone |-> ph, otp |-> code,
                                           verified |-> FALSE, expired |-> FALSE,
                                           attempts |-> 0])
                  /\ reply' = [op |-> "send_verification_otp", phone |-> ph,
                               result |-> "OTP sent successfully"]
    /\ UNCHANGED <<templates, callVars, inv, users, doctors, summaries, gen>>

\* verify_phone_otp, service.py lines 123-151: the first row the filter
\* accepts is marked verified; without one the first unverified row of the
\* phone counts a failed attempt and the request is refused
VerifyPhoneOtp ==
    /\ \E ph \in OtpPhones, code \in OtpCodes :
         LET matching == {k \in 1..Len(otps) : OtpMatches(otps[k], ph, code)}
             failing == UnverifiedOf(ph)
         IN  IF matching /= {}
             THEN /\ otps' = [otps EXCEPT
                        ![CHOOSE k \in matching : \A j \in matching : k <= j]
                            .verified = TRUE]
                  /\ reply' = [op |-> "verify_phone_otp", phone |-> ph,
                               otp |-> code, result |-> "OTP verified successfully"]
             ELSE /\ reply' = [op |-> "verify_phone_otp", phone |-> ph,
                               otp |-> code, result |-> "Invalid or expired OTP"]
                  /\ IF failing /= {}
                     THEN LET f == CHOOSE k \in failing : \A j \in failing : k <= j
                          IN  /\ otps[f].attempts < MaxAttempts
                              /\ otps' = [otps EXCEPT ![f].attempts = @ + 1]
                     ELSE UNCHANGED otps
    /\ UNCHANGED <<templates, callVars, inv, users, doctors, summaries, gen>>

\* ten minutes have passed since the oldest row whose time had not run out
\* was stored (expires_at of line 98 against utcnow() of line 129)
ExpireOtp ==
    /\ \E k \in 1..Len(otps) :
         /\ ~otps[k].expired
         /\ \A j \in 1..(k - 1) : otps[j].expired
         /\ otps' = [otps EXCEPT ![k].expired = TRUE]
    /\ UNCHANGED <<templates, callVars, inv, users, doctors, summaries, gen, reply>>

InitOtp ==
    /\ templates = <<>>
    /\ inv = [i \in Invocations |-> IdleFrame]
    /\ InitCall
    /\ InitSvc

NextOtp ==
    \/ SendVerificationOtp
    \/ VerifyPhoneOtp
    \/ ExpireOtp
    \/ CreateDoctorProfileOf(OtpApplications, {"H1"})

SpecOtp == InitOtp /\ [][NextOtp]_vars

\* ================================================================ claims
\* load_chunks runs with a configuration the chunker's contract allows
ValidConfig == chunk_size > overlap /\ overlap >= 0

\* load_chunks has returned its list to its caller
LoadChunksReturned ==
    \/ entry = "load_chunks" /\ outcome = "returned"
    \/ entry = "rag_pipeline" /\ pc /= "load_chunks" /\ ti > 1

\* rerank has returned its list to its caller
RerankReturned ==
    \/ entry = "rerank" /\ outcome = "returned"
    \/ entry = "rag_pipeline" /\ pc = "generate_summary"

\* C1: with chunk_size > overlap >= 0 load_chunks terminates: every
\* iteration advances the window by chunk_size - overlap and the loop stops
\* when the next window would begin at or past the end of the text, so it
\* never emits more windows than strides of chunk_size - overlap fit into
\* the text (the number of windows is at most ceil(len / stride)).
C1_LoadChunksTerminates ==
    ValidConfig =>
        Len(lc_chunks) * (chunk_size - overlap)
            < Len(text) + (chunk_size - overlap)

\* C2: for a non-empty text shorter than chunk_size load_chunks returns
\* exactly one chunk, holding the whole text: the list it builds never holds
\* a second chunk, and the list it returns is that one chunk.
C2_ShortTextOneChunk ==
    (ValidConfig /\ entry \in {"load_chunks", "rag_pipeline"}
        /\ 0 < Len(text) /\ Len(text) < chunk_size) =>
        /\ Len(lc_chunks) <= 1
        /\ LoadChunksReturned => lc_chunks = <<Chunk(text, source)>>

\* The text the chunks stand for: each chunk after the first repeats the last
\* `ov` characters of its predecessor, which are dropped.
RECURSIVE Reassemble(_, _)
Reassemble(cs, ov) ==
    IF cs = <<>> THEN <<>>
    ELSE IF Len(cs) = 1 THEN cs[1].text
    ELSE Reassemble(SubSeq(cs, 1, Len(cs) - 1), ov)
            \o SubSeq(cs[Len(cs)].text, ov + 1, Len(cs[Len(cs)].text))

\* C3: with chunk_size=200 and overlap=50 no chunk is longer than
\* chunk_size, every chunk but the last has exactly chunk_size characters,
\* and the returned chunks, the overlaps dropped, reconstruct the text.
C3_ChunksReconstructText ==
    (chunk_size = DefaultChunkSize /\ overlap = DefaultOverlap) =>
        /\ \A i \in 1..Len(lc_chunks) : Len(lc_chunks[i].text) <= chunk_size
        /\ \A i \in 1..(Len(lc_chunks) - 1) :
               Len(lc_chunks[i].text) = chunk_size
        /\ LoadChunksReturned => Reassemble(lc_chunks, overlap) = text

\* C4: when load_templates read zero templates, rag_pipeline invokes no
\* model, runs no stage behind the loader, and returns the literal message
\* as a normal return value.
C4_EmptyCorpusMessage ==
    (entry = "rag_pipeline" /\ pc \notin {"idle", "load_templates"}
        /\ failed /= "db" /\ rows = <<>>) =>
        /\ invoked = {}
        /\ pc \in {"load_templates_loop", "done"}
        /\ pc = "done" =>
              /\ outcome = "returned"
              /\ failed = "none"
              /\ summary = NoTemplatesMsg

C4_Witness ==
    /\ entry = "rag_pipeline"
    /\ templates = <<>>
    /\ rows = <<>>
    /\ pc = "done"
    /\ outcome = "returned"
    /\ summary = NoTemplatesMsg

\* C5: every rag_pipeline invocation reaches Done or Aborted.  The chunking
\* loop exits only through start >= len(text), the text is fixed and the
\* next start is a non-decreasing function of the current one, so the
\* invocation terminates only if every iteration of the loop moves the
\* window start forward.
C5_PipelineReachesTerminal ==
    [][(entry = "rag_pipeline" /\ LoadChunksIter) => start' > start]_vars

\* C6: when top_k exceeds the number n of indexed chunks, search returns
\* the n indexed chunks, each exactly once: n entries, none padded or
\* repeated.
C6_SearchReturnsAllOnce ==
    (entry = "search" /\ outcome = "returned" /\ top_k > Len(index)) =>
        /\ Len(retrieved) = Len(index)
        /\ \A i \in 1..Len(chunks) :
               Cardinality({j \in 1..Len(retrieved) :
                              retrieved[j] = chunks[i]}) = 1

\* C7: rerank returns min(5, len(candidates)) items, each one of the
\* supplied candidates, unaltered, and no candidate twice.
C7_RerankKeepsTopFive ==
    RerankReturned =>
        /\ Len(reranked) = Min(RerankKeep, Len(retrieved))
        /\ \A j \in 1..Len(reranked) :
               /\ ranked[j] \in 1..Len(retrieved)
               /\ reranked[j] = retrieved[ranked[j]]
        /\ \A i, j \in 1..Len(reranked) : ranked[i] = ranked[j] => i = j

C7_Witness ==
    /\ entry = "rerank"
    /\ outcome = "returned"
    /\ Len(retrieved) > RerankKeep
    /\ Len(reranked) = RerankKeep

\* C8: the list rerank returns is ordered by score descending, candidates
\* of equal score in their original order; every candidate left out scores
\* no higher than a returned one.
C8_RerankSortedStable ==
    (RerankReturned /\ retrieved /= <<>>) =>
        /\ \A i, j \in 1..Len(reranked) :
               i < j =>
                 \/ scores[ranked[i]] > scores[ranked[j]]
                 \/ /\ scores[ranked[i]] = scores[ranked[j]]
                    /\ ranked[i] < ranked[j]
        /\ \A j \in 1..Len(reranked) : reranked[j] = retrieved[ranked[j]]
        /\ \A j \in 1..Len(reranked) :
               \A k \in (Len(reranked) + 1)..Len(ranked) :
                 scores[ranked[j]] >= scores[ranked[k]]

C8_Witness ==
    /\ entry = "rerank"
    /\ outcome = "returned"
    /\ Len(retrieved) = 4
    /\ scores = <<1, 2, 1, 2>>
    /\ ranked = <<2, 4, 1, 3>>
    /\ reranked = <<retrieved[2], retrieved[4], retrieved[1], retrieved[3]>>

\* C9: rerank called with an empty candidate list returns an empty list and
\* never invokes the scoring model.
C9_RerankEmpty ==
    (entry = "rerank" /\ retrieved = <<>>) =>
        /\ "reranker" \notin invoked
        /\ outcome /= "raised"
        /\ outcome = "returned" => reranked = <<>>

C9_Witness ==
    /\ entry = "rerank"
    /\ retrieved = <<>>
    /\ outcome = "returned"
    /\ reranked = <<>>
    /\ invoked = {}

\* the models a call of `who` comes after in rag_pipeline
InvokedBefore(who) ==
    IF who = "db" THEN {}
    ELSE IF who = "embed_model" THEN {"embed_model"}
    ELSE IF who = "reranker" THEN {"embed_model", "reranker"}
    ELSE {"embed_model", "reranker", "client"}

\* C10: once a stage has failed, the invocation ends as an error: no later
\* stage runs (no model behind the failed one is invoked, no function is
\* left to run) and no summary text, partial or substitute, is returned.
C10_FailurePropagates ==
    failed /= "none" =>
        /\ outcome = "raised"
        /\ pc = "done"
        /\ ~ENABLED Next
        /\ summary = NoValue
        /\ invoked \subseteq InvokedBefore(failed)

C10_Witness ==
    /\ failed = "client"
    /\ outcome = "raised"
    /\ pc = "done"
    /\ prompt = Prompt(query, reranked)
    /\ summary = NoValue

\* The stages behind the loader never run inside rag_pipeline: a template
\* with content keeps load_chunks in its loop, and without one the pipeline
\* returns the message.
PipelineNeverPastLoader ==
    entry = "rag_pipeline" =>
        pc \in {"load_templates", "load_templates_loop", "load_chunks", "done"}

\* generate_summary has returned: called directly, or by a rag_pipeline that
\* went on with a non-empty chunk list
GenerationReturned ==
    /\ outcome = "returned"
    /\ \/ entry = "generate_summary"
       \/ entry = "rag_pipeline" /\ chunks /= <<>>

PipelineOrder ==
    <<"load_templates", "chunk", "embed_chunks", "create_index",
      "embed_query", "search", "rerank", "generate_summary">>

\* C12: inside one rag_pipeline invocation the stages begin in the fixed
\* order, each at most once (the stages begun are a prefix of the order, or
\* the loader alone when no template is stored), and the function that runs
\* next is the stage behind the last one begun.
C12_StagesInOrder ==
    entry = "rag_pipeline" =>
        /\ Len(stages) <= Len(PipelineOrder)
        /\ \A k \in 1..Len(stages) : stages[k] = PipelineOrder[k]
        /\ pc = "load_chunks" => stages = SubSeq(PipelineOrder, 1, 2)
        /\ pc \in {"embed_chunks", "create_index", "embed_query", "search",
                    "rerank", "generate_summary"} =>
              pc = PipelineOrder[Len(stages) + 1]

C12_Witness ==
    /\ entry = "rag_pipeline"
    /\ pc = "done"
    /\ outcome = "returned"
    /\ Len(rows) = 2
    /\ stages = <<"load_templates", "chunk">>

\* C15: load_chunks called with chunk_size <= overlap emits no chunk and does
\* not return: it can only fail.
C15_InvalidConfigRejected ==
    (entry = "load_chunks" /\ chunk_size <= overlap) =>
        /\ lc_chunks = <<>>
        /\ outcome /= "returned"

\* C16: embed_chunks gives one embedding per chunk, create_index keeps their
\* order, and every chunk search returns is the chunk at a position of the
\* index that the similarity search reported.
C16_PositionsCorrespond ==
    /\ (entry = "embed_chunks" /\ outcome = "returned") =>
            Len(embeddings) = Len(chunks)
    /\ (entry = "create_index" /\ outcome = "returned") => index = embeddings
    /\ (entry = "search" /\ outcome = "returned") =>
            LET labels == FaissLabels(index, query_embedding, top_k)
            IN  \A j \in 1..Len(retrieved) :
                    /\ labels[j] \in 0..(Len(index) - 1)
                    /\ retrieved[j] = chunks[labels[j] + 1]

\* the rows read by this invocation are templates of empty content only
OnlyEmptyTemplates ==
    /\ rows /= <<>>
    /\ \A k \in 1..Len(rows) : rows[k].content = <<>>

\* C18: when every stored template has empty content, rag_pipeline ends with
\* the "No templates available" message, as for an empty corpus: no model is
\* invoked and no index is created or searched.
C18_EmptyContentsAsEmptyCorpus ==
    (entry = "rag_pipeline" /\ OnlyEmptyTemplates) =>
        /\ pc \in {"load_templates_loop", "load_chunks", "done"}
        /\ invoked = {}
        /\ index = <<>> /\ retrieved = <<>>
        /\ \A k \in 1..Len(stages) : stages[k] \in {"load_templates", "chunk"}
        /\ pc = "done" => (outcome = "returned" /\ summary = NoTemplatesMsg)

C18_Witness ==
    /\ entry = "rag_pipeline"
    /\ OnlyEmptyTemplates
    /\ Len(rows) = 2
    /\ chunks = <<>>
    /\ pc = "done"
    /\ summary = NoTemplatesMsg

\* where the block of the j-th chunk begins in the prompt (0-based): behind
\* the three leading pieces and the blocks of the chunks before it
RECURSIVE BlockOffset(_, _)
BlockOffset(cs, j) ==
    IF j = 1 THEN 3 ELSE BlockOffset(cs, j - 1) + Len(cs[j - 1].text) + 4

\* the prompt p holds, from piece off + 1 on, the template line of chunk c
\* followed by c's text
HasBlockAt(p, off, c) ==
    /\ off + 3 + Len(c.text) <= Len(p)
    /\ p[off + 1] = "--- TEMPLATE: "
    /\ p[off + 2] = c.source
    /\ p[off + 3] = " ---\n"
    /\ SubSeq(p, off + 4, off + 3 + Len(c.text)) = c.text

\* the invocation read a single template, not empty and shorter than a window
SingleShortDocument ==
    /\ entry = "rag_pipeline"
    /\ Len(rows) = 1
    /\ rows[1].content /= <<>>
    /\ Len(rows[1].content) < DefaultChunkSize

\* C19: the prompt holds the query and, for each context chunk in the
\* reranker's order, one block of the template line and the chunk's text; for
\* a corpus of a single document shorter than a window the pipeline cuts one
\* chunk of the whole text and the context is that chunk's block alone.
C19_PromptBlocks ==
    /\ "client" \in invoked =>
        /\ prompt[2] = query
        /\ \A j \in 1..Len(reranked) :
                HasBlockAt(prompt, BlockOffset(reranked, j), reranked[j])
        /\ Cardinality({k \in 1..Len(prompt) : prompt[k] = "--- TEMPLATE: "})
                = Len(reranked)
    /\ SingleShortDocument =>
        /\ Len(all_chunks) + Len(lc_chunks) <= 1
        /\ "client" \in invoked =>
                prompt = Prompt(query,
                                <<Chunk(rows[1].content, rows[1].filename)>>)

\* the chunks of a template shorter than a window: none of an empty text,
\* else one chunk of the whole text
ShortTemplateChunks(row) ==
    IF row.content = <<>> THEN <<>>
    ELSE <<Chunk(row.content, row.filename)>>

\* the concatenation of the chunks of the first n rows
RECURSIVE ChunksOfRows(_, _)
ChunksOfRows(rs, n) ==
    IF n = 0 THEN <<>>
    ELSE ChunksOfRows(rs, n - 1) \o ShortTemplateChunks(rs[n])

IsPrefix(a, b) == Len(a) <= Len(b) /\ a = SubSeq(b, 1, Len(a))

\* C20: the list load_templates accumulates is the concatenation, in
\* template order, of the chunks of each template's content, every chunk
\* tagged with its template's filename; the list it returns is the
\* concatenation over all the rows.
C20_FlatConcatenation ==
    (entry = "rag_pipeline" /\ pc \notin {"idle", "load_templates"}
        /\ outcome /= "raised") =>
        /\ pc = "load_chunks" =>
              /\ all_chunks = ChunksOfRows(rows, ti - 1)
              /\ IsPrefix(all_chunks \o lc_chunks, ChunksOfRows(rows, ti))
        /\ pc = "load_templates_loop" =>
              all_chunks = ChunksOfRows(rows, Min(ti, Len(rows) + 1) - 1)
        /\ pc \notin {"load_chunks", "load_templates_loop"} =>
              chunks = ChunksOfRows(rows, Len(rows))

\* No invocation gets past the loader with chunks: its frame is in the loader,
\* or has ended with the message or with the database's failure.
FramesNeverPastLoader ==
    \A i \in Invocations :
        inv[i].pc \in {"idle", "load_templates", "load_templates_loop",
                       "load_chunks", "done"}

\* the frame f works on the templates of its own list only: the text being
\* chunked and every chunk cut are of the row it is at, and its result is
\* decided by its own rows
OwnTemplatesOnly(f) ==
    /\ f.pc = "load_chunks" =>
          /\ f.ti \in 1..Len(f.rows)
          /\ f.text = f.rows[f.ti].content
          /\ f.source = f.rows[f.ti].filename
          /\ \A k \in 1..Len(f.lc_chunks) :
                /\ f.lc_chunks[k].source = f.rows[f.ti].filename
                /\ f.lc_chunks[k].text =
                      PySlice(f.rows[f.ti].content,
                              IF k = 1 THEN 0
                              ELSE Len(f.rows[f.ti].content) - DefaultOverlap,
                              DefaultChunkSize)
    /\ \A k \in 1..Len(f.all_chunks) :
          \E r \in 1..Len(f.rows) :
              /\ r < f.ti
              /\ f.all_chunks[k].source = f.rows[r].filename
    /\ f.outcome = "returned" =>
          /\ f.chunks = f.all_chunks
          /\ \A r \in 1..Len(f.rows) : f.rows[r].content = <<>>
          /\ f.summary = NoTemplatesMsg

\* a step of one invocation leaves the other frames as they are and keeps the
\* list it has read, which is the table's rows at its own query; a step of a
\* template service leaves every frame as it is
StepsIndependent ==
    /\ \A i \in Invocations :
          inv[i]' /= inv[i] =>
              /\ \A j \in Invocations \ {i} : inv[j]' = inv[j]
              /\ inv[i]'.rows =
                    IF inv[i].pc = "load_templates" /\ inv[i]'.outcome = "none"
                    THEN templates ELSE inv[i].rows
    /\ templates' /= templates => inv' = inv

\* C13: rag_pipeline invocations interleaved with each other and with the
\* creation, update and deletion of templates are independent: each works on
\* the templates it read at its own query only, builds its own chunk list,
\* and no step of another invocation or of a template service changes its
\* frame.
C13_InvocationsIndependent ==
    /\ [](\A i \in Invocations : OwnTemplatesOnly(inv[i]))
    /\ [][StepsIndependent]_vars

C13_Witness ==
    /\ inv[1].rows /= inv[2].rows
    /\ inv[1].rows /= templates
    /\ inv[2].rows /= templates
    /\ Len(inv[1].rows) = 2 /\ Len(inv[2].rows) = 2 /\ Len(templates) = 2
    /\ inv[1].pc = "done" /\ inv[1].summary = NoTemplatesMsg
    /\ inv[2].pc = "load_chunks" /\ inv[2].ti = 2
    /\ Len(inv[2].lc_chunks) = 2

\* C14: no step of a rag_pipeline invocation writes: the stored templates
\* are the same after each of its steps as before, whatever its outcome.
C14_PipelineWritesNothing ==
    [][(\E i \in Invocations : inv[i]' /= inv[i]) =>
            templates' = templates]_vars

C14_Witness ==
    /\ templates /= <<>>
    /\ inv[1].pc = "done" /\ inv[1].outcome = "returned"
    /\ inv[1].rows = templates
    /\ inv[2].pc = "done" /\ inv[2].outcome = "raised"

\* the value of start when the k-th window of this call is cut: line 14 for
\* the first, line 21 after each window before
RECURSIVE StartOfWindow(_)
StartOfWindow(k) ==
    IF k = 1 THEN 0
    ELSE Min(StartOfWindow(k - 1) + chunk_size, Len(text)) - overlap

\* where the k-th chunk begins in the text: text[start:end] counts a negative
\* start from the end of the text
OffsetOfChunk(k) == PyBound(Len(text), StartOfWindow(k))

\* C21: load_chunks returns no chunk for an empty text, and the chunks it
\* has cut of any text begin at strictly increasing offsets of the text.
C21_ChunksInTextOrder ==
    (entry = "load_chunks" /\ ValidConfig) =>
        /\ (text = <<>> /\ outcome = "returned") => lc_chunks = <<>>
        /\ \A k \in 1..Len(lc_chunks) :
              lc_chunks[k].text = PySlice(text, StartOfWindow(k),
                                          Min(StartOfWindow(k) + chunk_size, Len(text)))
        /\ \A k \in 1..(Len(lc_chunks) - 1) :
              OffsetOfChunk(k) < OffsetOfChunk(k + 1)

\* no two stored templates share a filename
FilenamesUnique ==
    \A j, k \in 1..Len(templates) :
        templates[j].filename = templates[k].filename => j = k

\* an upload of a filename that is stored changes nothing and answers with
\* the stored template of that filename
ExistingReported ==
    (reply' /= reply /\ reply'.op = "upload_document"
        /\ FilenameStored(reply'.filename)) =>
        /\ templates' = templates
        /\ reply'.result = "Template already exists"
        /\ reply'.template_id \in 1..Len(templates)
        /\ templates[reply'.template_id].filename = reply'.filename

\* C23: after any sequence of add_document, update_document and
\* delete_document no two stored templates share a filename, and
\* add_document with a stored filename leaves the table unchanged and reports
\* the stored template.
C23_FilenamesStayUnique ==
    /\ []FilenamesUnique
    /\ [][ExistingReported]_vars

C23_Witness ==
    /\ Len(templates) = 2
    /\ reply.op = "upload_document"
    /\ reply.result = "Template already exists"
    /\ reply.template_id = 2

\* C25: for every patient at most one discharge summary that is not approved
\* is stored, in every state reached by generate_discharge and
\* approve_discharge requests, two generate_discharge requests of one patient
\* in flight at once included.
C25_OneUnapprovedPerPatient ==
    \A p \in StoredPatients : Cardinality(Unapproved(p)) <= 1

\* C26: every stored discharge summary holds a text of the summary
\* generator: never the "No templates available" message, and no record is
\* stored by a request whose rag_pipeline call failed.
C26_StoredTextIsGenerated ==
    /\ \A k \in 1..Len(summaries) :
          /\ summaries[k].summary \in Responses
          /\ summaries[k].summary /= NoTemplatesMsg
    /\ Len(summaries) =
          Cardinality({g \in Generations : gen[g].outcome = "stored"})

\* the last request was a login that was given a token, by a doctor's account
DoctorGotToken ==
    /\ reply.op = "login_user"
    /\ reply.result = "token"
    /\ users[UserNamed(reply.username)].role = "doctor"

\* an account created by this step with role doctor is not approved, and an
\* account that becomes approved in this step does so by approve_doctor
ApprovedOnlyByApproval ==
    /\ \A k \in (Len(users) + 1)..Len(users') :
          users'[k].role = "doctor" => ~users'[k].is_approved
    /\ \A k \in 1..Len(users) :
          (~users[k].is_approved /\ users'[k].is_approved) =>
              (reply'.op = "approve_doctor" /\ reply'.result = "approved")

\* C24: login_user gives a token to a doctor's account only if the account
\* is approved; accounts of doctors are created unapproved by register_doctor
\* and create_doctor_profile, and become approved through approve_doctor only.
C24_TokenOnlyIfApproved ==
    /\ [](DoctorGotToken => users[UserNamed(reply.username)].is_approved)
    /\ [][ApprovedOnlyByApproval]_vars

C24_Witness ==
    /\ DoctorGotToken
    /\ reply.username = "H1"
    /\ \E k \in 1..Len(doctors) :
          /\ doctors[k].employee_id = "H1"
          /\ doctors[k].user_id = UserNamed("H1")
          /\ doctors[k].status = "active"

\* C27: for every profile linked to an account, the account is approved
\* exactly when the profile's status is "active"; a doctor whose profile is
\* rejected or inactive gets no token.
C27_ApprovedIffActive ==
    \A k \in 1..Len(doctors) :
        doctors[k].user_id \in 1..Len(users) =>
            /\ users[doctors[k].user_id].is_approved
                    <=> doctors[k].status = "active"
            /\ (DoctorGotToken
                    /\ UserNamed(reply.username) = doctors[k].user_id) =>
                    doctors[k].status \notin {"rejected", "inactive"}

\* C28: a create_doctor_profile that fails changes neither table, so every
\* profile stored is linked to an account.
C28_EveryProfileLinked ==
    \A k \in 1..Len(doctors) : doctors[k].user_id \in 1..Len(users)

\* C29: the pending_doctors count of get_dashboard_stats equals the number
\* of entries get_pending_doctors returns.
C29_PendingCountIsListLength ==
    PendingDoctorsCount = Len(PendingDoctorsList)

\* C22: a profile (its phone_verified set) exists for a phone only if
\* verify_phone_otp succeeded for that phone before; a verified row is never
\* deleted, so a success leaves a verified row of the phone behind
C22_ProfileOnlyAfterVerification ==
    \A k \in 1..Len(doctors) :
        doctors[k].phone_verified =>
            \E j \in 1..Len(otps) :
                otps[j].phone = doctors[k].phone /\ otps[j].verified

\* a phone never holds two unverified rows
AtMostOneUnverified ==
    \A ph \in OtpPhones : Cardinality(UnverifiedOf(ph)) <= 1

\* a verification that succeeds marks one row, which was of the phone, of
\* the submitted code, unverified and in time, and changes nothing else
VerifySucceeds ==
    (VerifyPhoneOtp /\ reply'.result = "OTP verified successfully") =>
        \E k \in 1..Len(otps) :
            /\ otps[k].phone = reply'.phone
            /\ otps[k].otp = reply'.otp
            /\ ~otps[k].verified
            /\ ~otps[k].expired
            /\ otps' = [otps EXCEPT ![k].verified = TRUE]

\* a verification that fails changes at most the attempts of one unverified
\* row of the phone
VerifyFails ==
    (VerifyPhoneOtp /\ reply'.result = "Invalid or expired OTP") =>
        /\ \/ otps' = otps
           \/ \E k \in UnverifiedOf(reply'.phone) :
                  otps' = [otps EXCEPT ![k].attempts = @ + 1]
        /\ UNCHANGED <<users, doctors>>

\* no step takes a verification back
VerifiedStay ==
    Cardinality({k \in 1..Len(otps') : otps'[k].verified})
        >= Cardinality({k \in 1..Len(otps) : otps[k].verified})

\* C30: verify_phone_otp succeeds only for a row of the phone that is
\* unverified, in time and of the submitted code; a row is verified at most
\* once; a phone holds at most one unverified row; a failed verification
\* changes only the attempts of one unverified row of the phone
C30_VerificationIsSound ==
    /\ []AtMostOneUnverified
    /\ [][VerifySucceeds]_vars
    /\ [][VerifyFails]_vars
    /\ [][VerifiedStay]_vars

\* a phone verified once, sent a second code, and a wrong code submitted
C30_Witness ==
    /\ reply.op = "verify_phone_otp"
    /\ reply.result = "Invalid or expired OTP"
    /\ \E j, k \in 1..Len(otps) :
           /\ otps[j].phone = reply.phone /\ otps[j].verified
           /\ otps[k].phone = reply.phone /\ ~otps[k].verified
           /\ otps[k].attempts = 1

====
